---- MODULE Spec2Model ----
(***************************************************************************)
(* Payments engine: fixed-point amounts (amount.rs), the per-client Funds  *)
(* state machine (funds.rs) and the validation / engine step over the      *)
(* client table and the transaction ledger (transactions.rs).              *)
(*                                                                         *)
(* Option<T> is modelled as a sequence: None == <<>>, Some(x) == <<x>>.   *)
(* HashMap<K, V> is modelled as a function whose DOMAIN is the key set.    *)
(* Record constructors list their fields in one fixed order (that of the   *)
(* names' first occurrence in this module), the order TLC stores them in.  *)
(*                                                                         *)
(* A &str is a sequence of one-character strings; the f64 of an input row  *)
(* is an exact count of hundred-thousandths.  Spec and SpecUnique fold the *)
(* engine over free input rows, SpecTrace replays the end-to-end input of  *)
(* section 8, and SpecParse applies Amount::from_str to bounded texts.     *)
(***************************************************************************)
EXTENDS Integers, Sequences, FiniteSets, TLC

\* ------------------------------------------------------------------ bounds
\* Largest amount carried by an input row (ten-thousandths of a unit).
MaxAmt == 2
\* Length of the finite input sequence the engine folds over.
MaxRecords == 4

\* Longest run of characters before the first '.' of a text handed to the parser.
MaxInt == 2
\* Longest run of characters after the first '.' of such a text.
MaxFrac == 5

\* Client(u16) and Tx(u32) are opaque keys; two clients and two tx ids.
Client == {1, 2}
Tx == {1, 2}

TxType == {"Deposit", "Withdrawal", "Dispute", "Resolve", "Chargeback"}
FundingStates == {"Valid", "Disputed", "Frozen"}

None == <<>>
Some(x) == <<x>>

\* Amount(u64) values an input row can carry.
Amount == 0..MaxAmt

\* ------------------------------------------------------------------ structs
\* struct Funds { held, available, client, state }  (funds.rs)
Funds == [held : Nat, available : Nat, client : Client, state : FundingStates]

\* TransactionRecord { type, amount: Option<Amount>, tx, client }  (transactions.rs)
TransactionRecord(type, amount, tx, client) ==
    [client |-> client, type |-> type, amount |-> amount, tx |-> tx]

\* ProcessedRecord { type, amount: Amount, tx, client }  (transactions.rs)
ProcessedRecord(type, amount, tx, client) ==
    [client |-> client, type |-> type, amount |-> amount, tx |-> tx]

\* ------------------------------------------------------------------ amount.rs
\* impl Add for Amount: plain unsigned addition.
Add(a, b) == a + b

\* Faulty variant of Sub: saturates at zero instead of leaving a unchanged.
Sub_saturating(a, b) == IF a >= b THEN a - b ELSE 0

\* Faulty variant of Sub: the difference is taken whichever operand is larger.
Sub_absolute(a, b) == IF a >= b THEN a - b ELSE b - a

\* impl Sub for Amount: a - b when a >= b, otherwise a unchanged.
Sub(a, b) == IF a >= b THEN a - b ELSE a

\* ---- text: a &str is a sequence of one-character strings (ASCII only)
Digits == <<"0", "1", "2", "3", "4", "5", "6", "7", "8", "9">>

is_digit(ch) == \E i \in 1..Len(Digits) : Digits[i] = ch

digit_value(ch) == (CHOOSE i \in 1..Len(Digits) : Digits[i] = ch) - 1

\* str::find(ch): 0-based index of the first occurrence, None when absent.
find(s, ch) ==
    IF \E i \in 1..Len(s) : s[i] = ch
    THEN Some((CHOOSE i \in 1..Len(s) :
                  s[i] = ch /\ \A j \in 1..(i - 1) : s[j] # ch) - 1)
    ELSE None

\* str::split(ch): the pieces between the occurrences of ch.
RECURSIVE split(_, _)
split(s, ch) ==
    IF find(s, ch) = None
    THEN <<s>>
    ELSE <<SubSeq(s, 1, find(s, ch)[1])>>
         \o split(SubSeq(s, find(s, ch)[1] + 2, Len(s)), ch)

\* str::repeat(n)
RECURSIVE repeat(_, _)
repeat(s, n) == IF n = 0 THEN <<>> ELSE s \o repeat(s, n - 1)

\* Value of a string of decimal digits.
RECURSIVE digits_value(_)
digits_value(s) ==
    IF Len(s) = 0 THEN 0
    ELSE 10 * digits_value(SubSeq(s, 1, Len(s) - 1)) + digit_value(s[Len(s)])

\* str::parse::<u64>(): an optional leading '+', then one or more digits;
\* Some(value) for Ok, None for Err.  (Texts stay far below the u64 range.)
parse_u64(s) ==
    LET body == IF Len(s) > 0 /\ s[1] = "+" THEN Tail(s) ELSE s
    IN  IF Len(body) > 0 /\ \A i \in 1..Len(body) : is_digit(body[i])
        THEN Some(digits_value(body))
        ELSE None

\* Result<Amount, &'static str>
Ok(val) == <<"Ok", val>>
Err(e) == <<"Err", e>>
is_ok(result) == result[1] = "Ok"
is_err(result) == result[1] = "Err"

\* The two error messages of Amount::from_str.
err == "A valid amount is up to 4 digits precision"
bad_input == "Bad input for amount"

\* Faulty variant of from_str: the fraction is not padded to four digits.
from_str_unpadded(s) ==
    LET index == find(s, ".")
    IN  IF index # None
        THEN LET decimal_length == (Len(s) - 1) - index[1]
                 nums == split(s, ".")
                 right == nums[Len(nums)]
                 left_val == parse_u64(nums[1])
                 right_val == parse_u64(right)
             IN  IF decimal_length > 4 THEN Err(err)
                 ELSE IF left_val # None /\ right_val # None
                      THEN Ok((left_val[1] * 10000) + right_val[1])
                      ELSE Err(err)
        ELSE IF parse_u64(s) # None
             THEN Ok(parse_u64(s)[1] * 10000)
             ELSE Err(bad_input)

\* impl FromStr for Amount
from_str(s) ==
    LET index == find(s, ".")
    IN  IF index # None
        THEN LET decimal_length == (Len(s) - 1) - index[1]
                 pad == repeat(<<"0">>, 4 - decimal_length)
                 nums == split(s, ".")
                 right == nums[Len(nums)] \o pad
                 left_val == parse_u64(nums[1])
                 right_val == parse_u64(right)
             IN  IF decimal_length > 4 THEN Err(err)
                 ELSE IF left_val # None /\ right_val # None
                      THEN Ok((left_val[1] * 10000) + right_val[1])
                      ELSE Err(err)
        ELSE IF parse_u64(s) # None
             THEN Ok(parse_u64(s)[1] * 10000)
             ELSE Err(bad_input)

\* ---- f64: the values an amount column can hold are modelled exactly, as an
\* integer count of hundred-thousandths (one digit finer than an Amount).
F64Unit == 10 * 10000

\* Decimal digits of a natural number.
RECURSIVE nat_to_string(_)
nat_to_string(n) ==
    IF n < 10 THEN <<Digits[n + 1]>>
    ELSE nat_to_string(n \div 10) \o <<Digits[(n % 10) + 1]>>

\* Fraction digits of frac / unit, without trailing zeros.
RECURSIVE frac_to_string(_, _)
frac_to_string(frac, unit) ==
    IF frac = 0 THEN <<>>
    ELSE <<Digits[((10 * frac) \div unit) + 1]>>
         \o frac_to_string((10 * frac) % unit, unit)

\* f64::to_string (Display): shortest decimal text, no exponent, no trailing
\* zeros, and no '.' for a whole number.
to_string(val) ==
    LET abs == IF val < 0 THEN 0 - val ELSE val
        sign == IF val < 0 THEN <<"-">> ELSE <<>>
        whole == nat_to_string(abs \div F64Unit)
        frac == frac_to_string(abs % F64Unit, F64Unit)
    IN  IF Len(frac) = 0 THEN sign \o whole ELSE sign \o whole \o <<".">> \o frac

\* ------------------------------------------------------------------ funds.rs
\* Faulty variant of not_frozen: the Frozen test is missing.
not_frozen_always(fund) == TRUE

not_frozen(fund) == fund.state # "Frozen"

\* Faulty variant of total: held funds are left out.
total_available_only(fund) == fund.available

total(fund) == Add(fund.available, fund.held)

deposit(fund, amount) ==
    IF not_frozen(fund)
    THEN [fund EXCEPT !.available = Add(fund.available, amount)]
    ELSE fund

\* Faulty variant of withdraw: an overdraw attempt locks the account.
withdraw_locking(fund, amount) ==
    IF not_frozen(fund)
    THEN IF fund.available >= amount
         THEN [fund EXCEPT !.available = fund.available - amount]
         ELSE [fund EXCEPT !.state = "Frozen"]
    ELSE fund

\* Faulty variant of withdraw: on insufficient funds it takes what is there.
withdraw_to_zero(fund, amount) ==
    IF not_frozen(fund)
    THEN [fund EXCEPT !.available = IF fund.available >= amount
                                    THEN fund.available - amount
                                    ELSE 0]
    ELSE fund

withdraw(fund, amount) ==
    IF not_frozen(fund)
    THEN [fund EXCEPT !.available = Sub(fund.available, amount)]
    ELSE fund

\* Faulty variant of update_dispute: the state is Disputed whatever is held.
update_dispute_always_disputed(fund) == [fund EXCEPT !.state = "Disputed"]

update_dispute(fund) ==
    IF fund.held > 0
    THEN [fund EXCEPT !.state = "Disputed"]
    ELSE [fund EXCEPT !.state = "Valid"]

\* Faulty variant of dispute: the disputed amount stays available.
dispute_no_debit(fund, amount) ==
    IF not_frozen(fund)
    THEN update_dispute([fund EXCEPT !.held = Add(fund.held, amount)])
    ELSE fund

dispute(fund, amount) ==
    IF not_frozen(fund)
    THEN update_dispute([fund EXCEPT !.held = Add(fund.held, amount),
                                     !.available = Sub(fund.available, amount)])
    ELSE fund

\* Faulty variant of resolve: the dispute is closed even when money stays held.
resolve_always_valid(fund, amount) ==
    IF not_frozen(fund) /\ fund.state = "Disputed"
    THEN [fund EXCEPT !.held = Sub(fund.held, amount),
                      !.available = Add(fund.available, amount),
                      !.state = "Valid"]
    ELSE fund

\* Faulty variant of resolve: releases held without crediting available.
resolve_no_credit(fund, amount) ==
    IF not_frozen(fund) /\ fund.state = "Disputed"
    THEN update_dispute([fund EXCEPT !.held = Sub(fund.held, amount)])
    ELSE fund

\* Faulty variant of resolve: the Disputed test is missing.
resolve_any_state(fund, amount) ==
    IF not_frozen(fund)
    THEN update_dispute([fund EXCEPT !.held = Sub(fund.held, amount),
                                     !.available = Add(fund.available, amount)])
    ELSE fund

resolve(fund, amount) ==
    IF not_frozen(fund) /\ fund.state = "Disputed"
    THEN update_dispute([fund EXCEPT !.held = Sub(fund.held, amount),
                                     !.available = Add(fund.available, amount)])
    ELSE fund

\* Faulty variant of chargeback: freezes only once nothing is held any more.
chargeback_until_empty(fund, amount) ==
    IF not_frozen(fund) /\ fund.state = "Disputed"
    THEN [fund EXCEPT !.held = Sub(fund.held, amount),
                      !.state = IF Sub(fund.held, amount) > 0 THEN "Disputed" ELSE "Frozen"]
    ELSE fund

chargeback(fund, amount) ==
    IF not_frozen(fund) /\ fund.state = "Disputed"
    THEN [fund EXCEPT !.held = Sub(fund.held, amount), !.state = "Frozen"]
    ELSE fund

\* ------------------------------------------------------------------ transactions.rs
\* HashMap::get
get(map, key) == IF key \in DOMAIN map THEN Some(map[key]) ELSE None

\* Faulty variant of valid_deposit: the arm for a client without Funds is missing.
valid_deposit_existing_only(client, record) ==
    /\ record.type = "Deposit"
    /\ client # None
    /\ record.amount # None
    /\ not_frozen(client[1])

\* Faulty variant of valid_deposit: the test of the record type is missing.
valid_deposit_any_type(client, record) ==
    \/ /\ client # None
       /\ record.amount # None
       /\ not_frozen(client[1])
    \/ /\ client = None
       /\ record.amount # None

\* Faulty variant of valid_deposit: the Frozen test is missing.
valid_deposit_frozen_too(client, record) ==
    /\ record.type = "Deposit"
    /\ record.amount # None

valid_deposit(client, record) ==
    \/ /\ record.type = "Deposit"
       /\ client # None
       /\ record.amount # None
       /\ not_frozen(client[1])
    \/ /\ record.type = "Deposit"
       /\ client = None
       /\ record.amount # None

valid_withdrawal(client, record) ==
    /\ record.type = "Withdrawal"
    /\ client # None
    /\ record.amount # None
    /\ not_frozen(client[1])

\* Faulty variant of valid_dispute: a dispute is refused while one is open.
valid_dispute_valid_only(client, record, previous_record) ==
    /\ client # None /\ record # None /\ previous_record # None
    /\ record[1].type = "Dispute"
    /\ client[1].state = "Valid"
    /\ record[1].tx = previous_record[1].tx

valid_dispute(client, record, previous_record) ==
    /\ client # None /\ record # None /\ previous_record # None
    /\ record[1].type = "Dispute"
    /\ not_frozen(client[1])
    /\ record[1].tx = previous_record[1].tx

valid_resolve(client, record, previous_record) ==
    /\ client # None /\ record # None /\ previous_record # None
    /\ client[1].state = "Disputed"
    /\ record[1].type = "Resolve"
    /\ not_frozen(client[1])
    /\ record[1].tx = previous_record[1].tx

valid_chargeback(client, record, previous_record) ==
    /\ client # None /\ record # None /\ previous_record # None
    /\ client[1].state = "Disputed"
    /\ record[1].type = "Chargeback"
    /\ not_frozen(client[1])
    /\ record[1].tx = previous_record[1].tx

\* Faulty variant of transact: a dispute / resolve / chargeback row that carries
\* an amount applies that amount instead of the ledger record's.
transact_row_amount(client_funds, records, initial_record) ==
    LET previous_record == get(records, initial_record.tx)
        c == initial_record.client
        client == get(client_funds, c)
        type == initial_record.type
        amount == IF initial_record.amount # None
                  THEN initial_record.amount[1]
                  ELSE previous_record[1].amount
    IN  IF client = None THEN client_funds
        ELSE IF type = "Deposit" /\ valid_deposit(client, initial_record)
          THEN [client_funds EXCEPT ![c] = deposit(@, initial_record.amount[1])]
        ELSE IF type = "Withdrawal" /\ valid_withdrawal(client, initial_record)
          THEN [client_funds EXCEPT ![c] = withdraw(@, initial_record.amount[1])]
        ELSE IF type = "Dispute"
                /\ valid_dispute(client, Some(initial_record), previous_record)
          THEN [client_funds EXCEPT ![c] = dispute(@, amount)]
        ELSE IF type = "Resolve"
                /\ valid_resolve(client, Some(initial_record), previous_record)
          THEN [client_funds EXCEPT ![c] = resolve(@, amount)]
        ELSE IF type = "Chargeback"
                /\ valid_chargeback(client, Some(initial_record), previous_record)
          THEN [client_funds EXCEPT ![c] = chargeback(@, amount)]
        ELSE client_funds

\* transact: the new client table (the ledger `records` is only read).
transact(client_funds, records, initial_record) ==
    LET previous_record == get(records, initial_record.tx)
        c == initial_record.client
        client == get(client_funds, c)
        type == initial_record.type
    IN  IF client = None THEN client_funds
        ELSE IF type = "Deposit" /\ valid_deposit(client, initial_record)
          THEN [client_funds EXCEPT ![c] = deposit(@, initial_record.amount[1])]
        ELSE IF type = "Withdrawal" /\ valid_withdrawal(client, initial_record)
          THEN [client_funds EXCEPT ![c] = withdraw(@, initial_record.amount[1])]
        ELSE IF type = "Dispute"
                /\ valid_dispute(client, Some(initial_record), previous_record)
          THEN [client_funds EXCEPT ![c] = dispute(@, previous_record[1].amount)]
        ELSE IF type = "Resolve"
                /\ valid_resolve(client, Some(initial_record), previous_record)
          THEN [client_funds EXCEPT ![c] = resolve(@, previous_record[1].amount)]
        ELSE IF type = "Chargeback"
                /\ valid_chargeback(client, Some(initial_record), previous_record)
          THEN [client_funds EXCEPT ![c] = chargeback(@, previous_record[1].amount)]
        ELSE client_funds

\* f64 holding exactly the Amount a (ten-thousandths).
f64_of(a) == 10 * a

\* f64 with five fractional digits: 0.00001, a tenth of the smallest Amount.
too_precise == f64_of(1) \div 10

\* The f64 values the amount column of an input row takes.
RowAmounts == {too_precise} \cup {f64_of(a) : a \in Amount}

\* impl From<RecordFloatAmount> for Amount: the parse result, which the caller
\* unwraps (an Err is a panic).  Tabulated once over the row amounts.
from_float_table == [val \in RowAmounts |-> from_str(to_string(val))]

from_float(val) ==
    IF val \in RowAmounts THEN from_float_table[val] ELSE from_str(to_string(val))

\* RowRecord { type, client, tx, amount: f64 }: a deserialized input row.
RowRecord(type, client, tx, amount) ==
    [client |-> client, type |-> type, amount |-> amount, tx |-> tx]

\* possible_null_f64: an empty or "null" amount column is read as -1.0.
null_amount == 0 - F64Unit

\* Does the conversion of the row panic?  (unwrap of an Err from from_str)
from_panics(val) == ~(val.amount < 0) /\ is_err(from_float(val.amount))

\* impl From<RowRecord> for TransactionRecord
from(val) ==
    TransactionRecord(val.type,
                      IF val.amount < 0 THEN None ELSE Some(from_float(val.amount)[2]),
                      val.tx, val.client)

\* ------------------------------------------------------------------ engine step
\* The owner of the two tables (the fold of section 4.4 that calls transact)
\* creates the Funds entry of a first valid deposit and keeps the ledger.
open_account(client_funds, c) ==
    (c :> [held |-> 0, available |-> 0, client |-> c, state |-> "Valid"]) @@ client_funds

\* Faulty variant of insert_record: keeps the entry already stored for the tx id.
insert_record_keep_first(records, rec) ==
    records @@ (rec.tx :> ProcessedRecord(rec.type, rec.amount[1], rec.tx, rec.client))

\* Ledger insert/overwrite keyed by tx id.
insert_record(records, rec) ==
    (rec.tx :> ProcessedRecord(rec.type, rec.amount[1], rec.tx, rec.client)) @@ records

\* Legality of a deposit / withdrawal row against the current table.
legal(client_funds, rec) ==
    \/ valid_deposit(get(client_funds, rec.client), rec)
    \/ valid_withdrawal(get(client_funds, rec.client), rec)

\* One step of the fold: the tables after processing rec.
process(client_funds, records, rec) ==
    LET opened == IF rec.client \notin DOMAIN client_funds /\ valid_deposit(None, rec)
                  THEN open_account(client_funds, rec.client)
                  ELSE client_funds
    IN  [records |-> IF legal(client_funds, rec)
                     THEN insert_record(records, rec)
                     ELSE records,
         funds   |-> transact(opened, records, rec)]

\* ------------------------------------------------------------------ output
\* struct Output { client, available, held, total, locked }  (lib.rs)
Output(client, available, held, total_, locked) ==
    [held |-> held, available |-> available, client |-> client,
     total |-> total_, locked |-> locked]

\* The snapshot of one Funds entry (spec 4.2).
snapshot(fund) ==
    Output(fund.client, fund.available, fund.held, total(fund), fund.state = "Frozen")

\* The output of a run: the snapshots of the client table, in no particular order.
output(client_funds) == {snapshot(client_funds[c]) : c \in DOMAIN client_funds}

\* ------------------------------------------------------------------ state
VARIABLES
    client_funds,   \* ClientFunds: HashMap<Client, Funds>
    records,        \* TxRecords: HashMap<Tx, ProcessedRecord>
    processed,      \* number of input rows consumed so far
    last,           \* Option: the row consumed by the latest step
    prev,           \* Option: that row's client's Funds before the step
    disputed,       \* tx ids whose dispute was applied and not yet resolved / charged back
    used,           \* tx ids carried so far by deposit / withdrawal rows
    aborted,        \* the process has panicked
    rows,           \* a fixed input the engine replays (empty when rows are free)
    text,           \* the &str handed to Amount::from_str
    parsed          \* Option: the Result it returned

vars == <<client_funds, records, processed, last, prev, disputed, used,
          aborted, rows, text, parsed>>

\* type ClientFunds = HashMap<Client, Funds>
ClientFunds(map) ==
    /\ DOMAIN map \subseteq Client
    /\ \A c \in DOMAIN map : map[c] \in Funds /\ map[c].client = c

\* type TxRecords = HashMap<Tx, ProcessedRecord>; the key is the record's tx.
TxRecords(map) ==
    /\ DOMAIN map \subseteq Tx
    /\ \A t \in DOMAIN map :
          /\ map[t].tx = t
          /\ map[t].client \in Client
          /\ map[t].amount \in Nat
          /\ map[t].type \in TxType

TypeOK ==
    /\ ClientFunds(client_funds)
    /\ TxRecords(records)
    /\ processed \in 0..MaxRecords
    /\ disputed \subseteq Tx
    /\ used \subseteq Tx
    /\ aborted \in BOOLEAN

OptAmount == {None} \cup {Some(a) : a \in Amount}

\* Amount field of a dispute / resolve / chargeback row: absent, or a stray value.
RefAmount == {None, Some(MaxAmt)}

\* amount column of a deposit / withdrawal row: absent, an Amount, or too precise.
RowAmount == {null_amount} \cup RowAmounts

\* amount column of a dispute / resolve / chargeback row: absent, or a stray value.
RowRefAmount == {null_amount, f64_of(MaxAmt)}

\* Was rec applied as a dispute / resolve / chargeback on the current tables?
applied_dispute(rec) ==
    valid_dispute(get(client_funds, rec.client), Some(rec), get(records, rec.tx))
applied_resolve(rec) ==
    valid_resolve(get(client_funds, rec.client), Some(rec), get(records, rec.tx))
applied_chargeback(rec) ==
    valid_chargeback(get(client_funds, rec.client), Some(rec), get(records, rec.tx))

track(rec) ==
    IF rec.type = "Dispute" /\ applied_dispute(rec) THEN disputed \cup {rec.tx}
    ELSE IF \/ rec.type = "Resolve" /\ applied_resolve(rec)
            \/ rec.type = "Chargeback" /\ applied_chargeback(rec)
         THEN disputed \ {rec.tx}
    ELSE disputed

Init ==
    /\ client_funds = <<>>
    /\ records = <<>>
    /\ processed = 0
    /\ last = None
    /\ prev = None
    /\ disputed = {}
    /\ used = {}
    /\ aborted = FALSE
    /\ rows = <<>>
    /\ text = <<>>
    /\ parsed = None

\* The tables and the history after rec has been processed.
Apply(rec) ==
    /\ LET r == process(client_funds, records, rec)
       IN  /\ client_funds' = r.funds
           /\ records' = r.records
    /\ processed' = processed + 1
    /\ last' = Some(rec)
    /\ prev' = get(client_funds, rec.client)
    /\ disputed' = track(rec)
    /\ used' = IF rec.type \in {"Deposit", "Withdrawal"} THEN used \cup {rec.tx} ELSE used
    /\ UNCHANGED <<aborted, rows, text, parsed>>

Step(rec) ==
    /\ processed < MaxRecords
    /\ rows = <<>>
    /\ Apply(rec)

\* The conversion of the row panics: the run ends there.
Abort ==
    /\ aborted' = TRUE
    /\ UNCHANGED <<client_funds, records, processed, last, prev, disputed, used,
                   rows, text, parsed>>

\* Consume one row: convert it, then process the converted record.
Consume(row) ==
    /\ ~aborted
    /\ IF from_panics(row) THEN processed < MaxRecords /\ rows = <<>> /\ Abort
                           ELSE Step(from(row))

Deposit == \E c \in Client, tx \in Tx, a \in RowAmount :
    Consume(RowRecord("Deposit", c, tx, a))

Withdrawal == \E c \in Client, tx \in Tx, a \in RowAmount :
    Consume(RowRecord("Withdrawal", c, tx, a))

Dispute == \E c \in Client, tx \in Tx, a \in RowRefAmount :
    Consume(RowRecord("Dispute", c, tx, a))

Resolve == \E c \in Client, tx \in Tx, a \in RowRefAmount :
    Consume(RowRecord("Resolve", c, tx, a))

Chargeback == \E c \in Client, tx \in Tx, a \in RowRefAmount :
    Consume(RowRecord("Chargeback", c, tx, a))

Next == Deposit \/ Withdrawal \/ Dispute \/ Resolve \/ Chargeback

Spec == Init /\ [][Next]_vars

\* Inputs that honour the input contract of section 6: a tx id is carried by at
\* most one deposit / withdrawal row.
DepositFresh == \E c \in Client, tx \in Tx \ used, a \in RowAmount :
    Consume(RowRecord("Deposit", c, tx, a))

WithdrawalFresh == \E c \in Client, tx \in Tx \ used, a \in RowAmount :
    Consume(RowRecord("Withdrawal", c, tx, a))

NextUnique == DepositFresh \/ WithdrawalFresh \/ Dispute \/ Resolve \/ Chargeback

SpecUnique == Init /\ [][NextUnique]_vars

\* ---- replay of a fixed input
\* The rows of the end-to-end scenario of section 8, for deposit amounts x, y, z
\* and w: three deposits, the dispute and the chargeback of the third, and a
\* deposit after the chargeback.
trace_rows(x, y, z, w) ==
    << RowRecord("Deposit", 1, 1, x),
       RowRecord("Deposit", 2, 2, y),
       RowRecord("Deposit", 1, 3, z),
       RowRecord("Dispute", 1, 3, null_amount),
       RowRecord("Chargeback", 1, 3, null_amount),
       RowRecord("Deposit", 1, 4, w) >>

\* Deposit amounts of the scenario: 0.5, 1.0, 1.5, 2.0 and 5.0.
TraceAmounts ==
    {F64Unit \div 2, F64Unit, (3 * F64Unit) \div 2, 2 * F64Unit, 5 * F64Unit}

InitTrace ==
    /\ client_funds = <<>>
    /\ records = <<>>
    /\ processed = 0
    /\ last = None
    /\ prev = None
    /\ disputed = {}
    /\ used = {}
    /\ aborted = FALSE
    /\ rows \in {trace_rows(x, y, z, w) : x, y, z, w \in TraceAmounts}
    /\ text = <<>>
    /\ parsed = None

\* Consume the next row of the fixed input.
Replay ==
    /\ ~aborted
    /\ processed < Len(rows)
    /\ IF from_panics(rows[processed + 1]) THEN Abort
                                           ELSE Apply(from(rows[processed + 1]))

NextTrace == Replay

SpecTrace == InitTrace /\ [][NextTrace]_vars

\* ---- Amount::from_str on its own
\* All sequences over S of length at most n.
Seqs(S, n) == UNION {[1..k -> S] : k \in 0..n}

\* Characters of the generated texts: two digits, the separator and a sign.
TextChars == {"0", "1", ".", "+"}

\* The texts of the examples of sections 4.1 and 8, and a few malformed ones.
Examples ==
    { <<"1", "0", "0">>, <<"1", ".", "2", "3", "4">>, <<"0", ".", "0", "0", "0", "1">>,
      <<"5", ".", "8">>, <<"0", ".", "0", "0", "0", "0", "1">>,
      <<".", "5">>, <<"1", ".", "2", ".", "3">>, <<"1", "x">>, <<"x", ".", "5">>,
      <<"1", ".", "x">>, <<"-", "1">>, <<"a", "b", "c">> }

\* Every text with at most int characters before its first '.' and at most
\* frac after it, and the examples.
ParseInputs(int, frac) ==
    Examples \cup
    { h \o t : h \in Seqs(TextChars \ {"."}, int),
               t \in {<<>>} \cup {<<".">> \o f : f \in Seqs(TextChars, frac)} }

InitParse ==
    /\ client_funds = <<>>
    /\ records = <<>>
    /\ processed = 0
    /\ last = None
    /\ prev = None
    /\ disputed = {}
    /\ used = {}
    /\ aborted = FALSE
    /\ rows = <<>>
    /\ text \in ParseInputs(MaxInt, MaxFrac)
    /\ parsed = None

\* Amount::from_str(text)
Parse ==
    /\ parsed = None
    /\ parsed' = Some(from_str(text))
    /\ UNCHANGED <<client_funds, records, processed, last, prev, disputed, used,
                   aborted, rows, text>>

NextParse == Parse

SpecParse == InitParse /\ [][NextParse]_vars

\* ================================================================== claims
\* C1: Frozen is a terminal sink: no step changes the available, held or state of
\* a client whose Funds state is Frozen, whatever the type of the record.
C1_FrozenIsSink ==
    [][\A c \in DOMAIN client_funds :
          client_funds[c].state = "Frozen"
          => /\ c \in DOMAIN client_funds'
             /\ client_funds'[c] = client_funds[c]]_vars

\* A deposit with a present, positive amount was processed for a Frozen client.
C1_Witness ==
    /\ last # None /\ prev # None
    /\ last[1].type = "Deposit"
    /\ last[1].amount # None /\ last[1].amount[1] > 0
    /\ prev[1].state = "Frozen"
    /\ client_funds[last[1].client] = prev[1]

\* The latest step applied a dispute of a deposit recorded for the same client.
dispute_of_own_deposit ==
    /\ last # None /\ prev # None
    /\ last[1].type = "Dispute"
    /\ prev[1].state # "Frozen"
    /\ last[1].tx \in DOMAIN records
    /\ records[last[1].tx].type = "Deposit"
    /\ records[last[1].tx].client = last[1].client

\* C2 (as stated): an accepted dispute of a prior deposit of amount amt raises held
\* by exactly amt, lowers available by exactly amt and leaves the state Disputed.
C2_DisputeMovesExactly ==
    dispute_of_own_deposit =>
        LET f == client_funds[last[1].client]
            amt == records[last[1].tx].amount
        IN  /\ f.held = prev[1].held + amt
            /\ f.available = prev[1].available - amt
            /\ f.state = "Disputed"

\* C2 (amended): an accepted dispute of a prior deposit of amount amt raises held by
\* exactly amt; available drops by amt when available >= amt and is unchanged
\* otherwise; the state is Disputed when the resulting held > 0 and Valid otherwise.
C2_DisputeMovesClamped ==
    dispute_of_own_deposit =>
        LET f == client_funds[last[1].client]
            amt == records[last[1].tx].amount
        IN  /\ f.held = prev[1].held + amt
            /\ f.available = IF prev[1].available >= amt
                             THEN prev[1].available - amt
                             ELSE prev[1].available
            /\ f.state = IF prev[1].held + amt > 0 THEN "Disputed" ELSE "Valid"

\* A dispute of an own deposit of positive amount, fully covered by available.
C2_Witness ==
    /\ dispute_of_own_deposit
    /\ records[last[1].tx].amount > 0
    /\ prev[1].available >= records[last[1].tx].amount
    /\ client_funds[last[1].client].state = "Disputed"

\* C3: a resolve or chargeback naming a ledger tx of that client that is not
\* currently under dispute is dropped: the client's Funds do not change.
C3_OnlyTheDisputedTx ==
    [][\A c \in Client, t \in Tx :
          /\ last' # None
          /\ last'[1].type \in {"Resolve", "Chargeback"}
          /\ last'[1].client = c /\ last'[1].tx = t
          /\ t \in DOMAIN records /\ records[t].client = c
          /\ t \notin disputed
          => client_funds' = client_funds]_vars

\* C4: a dispute naming a tx whose ledger entry belongs to another client is
\* dropped and leaves every client's Funds unchanged.
C4_DisputeSameClientOnly ==
    [][\A c \in Client, t \in Tx :
          /\ last' # None
          /\ last'[1].type = "Dispute"
          /\ last'[1].client = c /\ last'[1].tx = t
          /\ t \in DOMAIN records /\ records[t].client # c
          => client_funds' = client_funds]_vars

\* The Funds of client c after a dispute row and then a resolve row, both naming
\* tx t, are processed on the current tables.
after_dispute_resolve(c, t) ==
    LET s1 == process(client_funds, records, TransactionRecord("Dispute", None, t, c))
        s2 == process(s1.funds, s1.records, TransactionRecord("Resolve", None, t, c))
    IN  s2.funds[c]

C6_Chargeback ==
    \A c \in DOMAIN client_funds, amt \in 0..(MaxAmt * MaxRecords) :
        LET f == client_funds[c]
            g == chargeback(f, amt)
        IN  IF f.state = "Disputed"
            THEN /\ g.held = IF f.held >= amt THEN f.held - amt ELSE f.held
                 /\ g.available = f.available
                 /\ g.state = "Frozen"
                 /\ g.client = f.client
            ELSE g = f

\* A chargeback was applied to a Disputed client and left held positive.
C6_Witness ==
    /\ last # None /\ prev # None
    /\ last[1].type = "Chargeback"
    /\ prev[1].state = "Disputed"
    /\ client_funds[last[1].client].state = "Frozen"
    /\ client_funds[last[1].client].held > 0
    /\ client_funds[last[1].client].available = prev[1].available

legal_deposit_or_withdrawal ==
    /\ last # None
    /\ last[1].type \in {"Deposit", "Withdrawal"}
    /\ last[1].amount # None
    /\ prev = None => last[1].type = "Deposit"
    /\ prev # None => prev[1].state # "Frozen"

C9_RejectedChangesNothing ==
    [][\A c \in Client, t \in Tx :
          /\ last' # None
          /\ last'[1].client = c /\ last'[1].tx = t
          /\ \/ /\ last'[1].type \in {"Dispute", "Resolve", "Chargeback"}
                /\ t \notin DOMAIN records \/ records[t].client # c
             \/ /\ last'[1].type # "Deposit"
                /\ c \notin DOMAIN client_funds
          => /\ client_funds' = client_funds
             /\ records' = records]_vars

\* C10: a resolve or chargeback for a client whose state is Valid or Frozen leaves
\* available, held and state unchanged, for every referenced tx and every amount.
C10_ResolveNeedsDisputed ==
    /\ /\ last # None /\ prev # None
       /\ last[1].type \in {"Resolve", "Chargeback"}
       /\ prev[1].state # "Disputed"
       => client_funds[last[1].client] = prev[1]
    /\ \A c \in DOMAIN client_funds, amt \in 0..(MaxAmt * MaxRecords) :
          client_funds[c].state \in {"Valid", "Frozen"}
          => /\ resolve(client_funds[c], amt) = client_funds[c]
             /\ chargeback(client_funds[c], amt) = client_funds[c]

\* A resolve naming an own ledger tx of positive amount reached a Valid client.
C10_Witness ==
    /\ last # None /\ prev # None
    /\ last[1].type = "Resolve"
    /\ prev[1].state = "Valid"
    /\ prev[1].available > 0
    /\ last[1].tx \in DOMAIN records
    /\ records[last[1].tx].client = last[1].client
    /\ records[last[1].tx].amount > 0
    /\ client_funds[last[1].client] = prev[1]

C12_RunNeverAborts == ~aborted

\* The tables as they are when the input holds the records of client c only.
own_funds(c) == [d \in DOMAIN client_funds \cap {c} |-> client_funds[d]]
own_records(c) == [t \in {u \in DOMAIN records : records[u].client = c} |-> records[t]]

\* C13: clients are independent: a record of another client never changes c's
\* Funds, and the Funds a record of c leaves for c are the same whether the
\* tables hold the entries made by the other clients or only c's own (the two
\* inputs of the claim: with and without the other clients' records).
C13_ClientsIndependent ==
    \A c \in Client, type \in TxType, t \in Tx, a \in OptAmount :
        /\ get(process(client_funds, records, TransactionRecord(type, a, t, c)).funds, c)
             = get(process(own_funds(c), own_records(c),
                           TransactionRecord(type, a, t, c)).funds, c)
        /\ \A d \in Client \ {c} :
              get(process(client_funds, records, TransactionRecord(type, a, t, d)).funds, c)
                = get(client_funds, c)

\* C14: a dispute, resolve or chargeback applies the amount of the ledger record
\* of the referenced tx: the Funds after an accepted one are those of the Funds
\* method called with the ledger amount, and while input remains, two next rows
\* that differ only in their own amount field leave the same client table.
C14_LedgerAmountApplied ==
    /\ /\ last # None /\ prev # None
       /\ last[1].tx \in DOMAIN records
       => LET amt == records[last[1].tx].amount
              previous_record == get(records, last[1].tx)
              now == client_funds[last[1].client]
          IN  /\ last[1].type = "Dispute" /\ valid_dispute(prev, last, previous_record)
                 => now = dispute(prev[1], amt)
              /\ last[1].type = "Resolve" /\ valid_resolve(prev, last, previous_record)
                 => now = resolve(prev[1], amt)
              /\ last[1].type = "Chargeback" /\ valid_chargeback(prev, last, previous_record)
                 => now = chargeback(prev[1], amt)
    /\ processed < MaxRecords
       => \A c \in Client, t \in Tx, type \in {"Dispute", "Resolve", "Chargeback"} :
          LET bare == transact(client_funds, records, TransactionRecord(type, None, t, c))
          IN  \A a \in Amount :
                 transact(client_funds, records, TransactionRecord(type, Some(a), t, c))
                   = bare

\* An accepted dispute row carried an amount of its own that differs from the
\* ledger amount, and held rose by the ledger amount.
C14_Witness ==
    /\ last # None /\ prev # None
    /\ last[1].type = "Dispute"
    /\ last[1].amount # None
    /\ last[1].tx \in DOMAIN records
    /\ records[last[1].tx].amount # last[1].amount[1]
    /\ records[last[1].tx].amount > 0
    /\ client_funds[last[1].client].held = prev[1].held + records[last[1].tx].amount

C16_Withdrawal ==
    /\ last # None /\ prev # None
    /\ last[1].type = "Withdrawal"
    /\ last[1].amount # None
    /\ prev[1].state # "Frozen"
    => /\ client_funds[last[1].client].available =
             IF prev[1].available >= last[1].amount[1]
             THEN prev[1].available - last[1].amount[1]
             ELSE prev[1].available
       /\ client_funds[last[1].client].held = prev[1].held
       /\ client_funds[last[1].client].state = prev[1].state

\* A withdrawal of more than the positive available balance was processed:
\* nothing was taken.
C16_Witness ==
    /\ last # None /\ prev # None
    /\ last[1].type = "Withdrawal"
    /\ last[1].amount # None
    /\ prev[1].state # "Frozen"
    /\ prev[1].available > 0
    /\ prev[1].available < last[1].amount[1]
    /\ client_funds[last[1].client] = prev[1]

\* C17: the output holds exactly one snapshot for each client with a Funds entry
\* and none for any other client, and each snapshot shows the entry's available
\* and held, total = available + held, and locked exactly when it is Frozen.
C17_OutputSnapshots ==
    /\ \A c \in Client :
          Cardinality({o \in output(client_funds) : o.client = c})
            = IF c \in DOMAIN client_funds THEN 1 ELSE 0
    /\ \A o \in output(client_funds) :
          /\ o.client \in DOMAIN client_funds
          /\ o.available = client_funds[o.client].available
          /\ o.held = client_funds[o.client].held
          /\ o.total = client_funds[o.client].available + client_funds[o.client].held
          /\ o.locked <=> client_funds[o.client].state = "Frozen"

\* At the end of the input the output holds the locked snapshot of a Frozen
\* client that keeps a balance, and no snapshot for the other client, which
\* has no Funds entry.
C17_Witness ==
    /\ processed = MaxRecords
    /\ Cardinality(output(client_funds)) = 1
    /\ \E o \in output(client_funds) :
          /\ o.locked /\ o.total > 0
          /\ client_funds[o.client].state = "Frozen"

\* The input of the claim: deposits of 1.0, 2.0 and 2.0, and 5.0 after the chargeback.
C18_rows == trace_rows(F64Unit, 2 * F64Unit, 2 * F64Unit, 5 * F64Unit)

integer_part(s) == IF find(s, ".") = None THEN s ELSE SubSeq(s, 1, find(s, ".")[1])

\* The characters of s after its first '.' (none when it has none).
fraction_part(s) ==
    IF find(s, ".") = None THEN <<>> ELSE SubSeq(s, find(s, ".")[1] + 2, Len(s))

all_digits(s) == \A i \in 1..Len(s) : is_digit(s[i])

\* s has the form integer[.fraction]: one or more digits, optionally followed by
\* a '.' and zero or more digits.
is_decimal(s) ==
    /\ Len(integer_part(s)) > 0
    /\ all_digits(integer_part(s))
    /\ all_digits(fraction_part(s))

RECURSIVE pow10(_)
pow10(n) == IF n = 0 THEN 1 ELSE 10 * pow10(n - 1)

\* The number a string of digits denotes: the sum of digit * 10^position.
RECURSIVE number(_)
number(s) ==
    IF Len(s) = 0 THEN 0
    ELSE digit_value(Head(s)) * pow10(Len(s) - 1) + number(Tail(s))

\* C19: for a text of the form integer[.fraction], a fraction of 0 to 4 digits
\* parses to integer * 10000 + the fraction right-padded with zeros to 4
\* digits, and a fraction of more than 4 digits fails with the precision
\* error; "100" -> 1000000, "1.234" -> 12340, "0.0001" -> 1, "5.8" -> 58000 and
\* "0.00001" fails.
C19_ParseDecimal ==
    /\ parsed # None /\ is_decimal(text)
       => IF Len(fraction_part(text)) <= 4
          THEN parsed[1] = Ok(number(integer_part(text)) * 10000
                              + number(fraction_part(text))
                                * pow10(4 - Len(fraction_part(text))))
          ELSE parsed[1] = Err(err)
    /\ parsed # None /\ text = <<"1", "0", "0">> => parsed[1] = Ok(1000000)
    /\ parsed # None /\ text = <<"1", ".", "2", "3", "4">> => parsed[1] = Ok(12340)
    /\ parsed # None /\ text = <<"0", ".", "0", "0", "0", "1">> => parsed[1] = Ok(1)
    /\ parsed # None /\ text = <<"5", ".", "8">> => parsed[1] = Ok(58000)
    /\ parsed # None /\ text = <<"0", ".", "0", "0", "0", "0", "1">> => is_err(parsed[1])

\* A text with a two-digit fraction that does not end in 0 has been parsed: the
\* fraction was padded.
C19_Witness ==
    /\ parsed # None
    /\ is_decimal(text)
    /\ Len(fraction_part(text)) = 2
    /\ text[Len(text)] = "1"
    /\ number(integer_part(text)) = 1
    /\ is_ok(parsed[1])
    /\ parsed[1][2] = 10000 + 100 * number(fraction_part(text))

\* C20: a text that is not of the form integer[.fraction] (empty integer part,
\* a non-digit character, a second '.') and has at most 4 characters after its
\* first '.' never parses: the result is an error, and not the error given
\* for more than 4 fractional digits.
C20_MalformedRejected ==
    /\ parsed # None
    /\ ~is_decimal(text)
    /\ Len(fraction_part(text)) <= 4
    => /\ is_err(parsed[1])
       /\ parsed[1] # Err(err)

\* C21: Amount subtraction clamps to a no-op: for every balance a a client
\* reaches (available or held) and every amount b a row or a ledger record
\* carries, Sub(a, b) = a - b when a >= b and Sub(a, b) = a when a < b; the
\* result is never negative and never more than a.
C21_SubClamps ==
    \A c \in DOMAIN client_funds :
       \A a \in {client_funds[c].available, client_funds[c].held}, b \in Amount :
          /\ a >= b => Sub(a, b) = a - b
          /\ a < b => Sub(a, b) = a
          /\ Sub(a, b) >= 0
          /\ Sub(a, b) <= a

\* An accepted chargeback named a ledger record whose amount exceeds what was
\* held: the subtraction left the positive held balance as it was.
C21_Witness ==
    /\ last # None /\ prev # None
    /\ last[1].type = "Chargeback"
    /\ last[1].tx \in DOMAIN records
    /\ prev[1].state = "Disputed"
    /\ prev[1].held > 0
    /\ prev[1].held < records[last[1].tx].amount
    /\ client_funds[last[1].client].state = "Frozen"
    /\ client_funds[last[1].client].held = Sub(prev[1].held, records[last[1].tx].amount)
    /\ client_funds[last[1].client].held = prev[1].held

\* The Funds the transition table of section 4.2 gives for resolve(amt) on fund.
resolved(fund, amt) ==
    LET left == IF fund.held >= amt THEN fund.held - amt ELSE fund.held
    IN  [held |-> left, available |-> fund.available + amt, client |-> fund.client,
         state |-> IF left > 0 THEN "Disputed" ELSE "Valid"]

\* C22: resolve(amt) on Disputed Funds sets held to held - amt when held >= amt
\* and leaves it otherwise, adds exactly amt to available, and leaves the state
\* Disputed when the resulting held > 0 and Valid otherwise: for every Disputed
\* client and amount, and after every accepted resolve row.
C22_Resolve ==
    /\ \A c \in DOMAIN client_funds, amt \in Amount :
          client_funds[c].state = "Disputed"
          => resolve(client_funds[c], amt) = resolved(client_funds[c], amt)
    /\ /\ last # None /\ prev # None
       /\ last[1].type = "Resolve"
       /\ valid_resolve(prev, last, get(records, last[1].tx))
       => client_funds[last[1].client] = resolved(prev[1], records[last[1].tx].amount)

\* A partial resolve: an accepted resolve released less than was held, and the
\* client is still Disputed with the rest held.
C22_Witness ==
    /\ last # None /\ prev # None
    /\ last[1].type = "Resolve"
    /\ last[1].tx \in DOMAIN records
    /\ prev[1].state = "Disputed"
    /\ records[last[1].tx].amount > 0
    /\ prev[1].held > records[last[1].tx].amount
    /\ client_funds[last[1].client].state = "Disputed"
    /\ client_funds[last[1].client].held = prev[1].held - records[last[1].tx].amount
    /\ client_funds[last[1].client].available
         = prev[1].available + records[last[1].tx].amount

\* C23: a dispute is accepted in state Valid and in state Disputed: a dispute
\* row of client c naming tx t is accepted exactly when c has a Funds entry that
\* is not Frozen and t has a ledger entry; and every accepted dispute, the
\* client already Disputed or not, raises held by the ledger amount of its tx,
\* so that held accumulates the amounts of the disputed txs.
C23_DisputeWhileDisputed ==
    /\ \A c \in Client, t \in Tx :
          applied_dispute(TransactionRecord("Dispute", None, t, c))
          <=> /\ c \in DOMAIN client_funds
              /\ client_funds[c].state \in {"Valid", "Disputed"}
              /\ t \in DOMAIN records
    /\ /\ last # None /\ prev # None
       /\ last[1].type = "Dispute"
       /\ prev[1].state \in {"Valid", "Disputed"}
       /\ last[1].tx \in DOMAIN records
       => client_funds[last[1].client].held = prev[1].held + records[last[1].tx].amount

\* Two distinct deposits of the client are under dispute, the second dispute
\* having met the client Disputed: held is the sum of the two amounts.
C23_Witness ==
    /\ last # None /\ prev # None
    /\ last[1].type = "Dispute"
    /\ prev[1].state = "Disputed"
    /\ last[1].tx \in disputed
    /\ Cardinality(disputed) = 2
    /\ \A t \in disputed :
          /\ t \in DOMAIN records
          /\ records[t].client = last[1].client
          /\ records[t].type = "Deposit"
          /\ records[t].amount > 0
    /\ \E u \in disputed \ {last[1].tx} :
          /\ prev[1].held = records[u].amount
          /\ client_funds[last[1].client].held
               = records[u].amount + records[last[1].tx].amount
    /\ client_funds[last[1].client].state = "Disputed"

\* C24: every client that is not Frozen is Disputed exactly when held > 0 (and
\* Valid exactly when held = 0), in every state reached from the empty tables,
\* where an account starts Valid with held = 0 at its first deposit.
C24_StateMatchesHeld ==
    \A c \in DOMAIN client_funds :
       client_funds[c].state # "Frozen"
       => /\ client_funds[c].state = "Disputed" <=> client_funds[c].held > 0
          /\ client_funds[c].state = "Valid" <=> client_funds[c].held = 0

\* An accepted resolve released all that was held: the client went from
\* Disputed with held > 0 back to Valid with held = 0.
C24_Witness ==
    /\ last # None /\ prev # None
    /\ last[1].type = "Resolve"
    /\ prev[1].state = "Disputed" /\ prev[1].held > 0
    /\ client_funds[last[1].client].state = "Valid"
    /\ client_funds[last[1].client].held = 0

\* Sum of the amounts of the ledger records with the tx ids in S.
RECURSIVE sum_amounts(_)
sum_amounts(S) ==
    IF S = {} THEN 0
    ELSE LET t == CHOOSE u \in S : TRUE
         IN  records[t].amount + sum_amounts(S \ {t})

\* The deposits applied to client c: with unique tx ids these are the Deposit
\* entries of the ledger that carry c.
deposits_of(c) ==
    {t \in DOMAIN records : records[t].client = c /\ records[t].type = "Deposit"}

\* Every ledger record carries client c: no other client has a part in c's history.
only_client(c) == \A t \in DOMAIN records : records[t].client = c

\* C25: no money is created: for every client, available + held is at most the
\* sum of the amounts of the deposits applied to that client, and an accepted
\* dispute or resolve never leaves a larger total than it found (stated for a
\* client whose records are the only ones in the ledger).
C25_NoMoneyCreated ==
    \A c \in DOMAIN client_funds :
       only_client(c)
       => /\ total(client_funds[c]) <= sum_amounts(deposits_of(c))
          /\ /\ last # None /\ prev # None
             /\ last[1].client = c
             /\ last[1].type \in {"Dispute", "Resolve"}
             => total(client_funds[c]) <= total(prev[1])

\* C26: a transaction is held at most once: held is at most the sum of the
\* amounts of the distinct ledger transactions of the client that are under
\* dispute, so a second dispute of a tx that is still under dispute adds
\* nothing (stated for a client whose records are the only ones in the ledger).
C26_HeldAtMostOnce ==
    \A c \in DOMAIN client_funds :
       only_client(c)
       => client_funds[c].held <= sum_amounts(disputed \cap DOMAIN records)

\* C27: Frozen is entered only through chargeback: a step after which a client
\* is Frozen that was not Frozen before is the processing of a chargeback row
\* of that client, accepted while the client was Disputed; no account starts
\* Frozen, and no deposit, withdrawal, dispute or resolve produces Frozen.
C27_FrozenOnlyByChargeback ==
    [][\A c \in DOMAIN client_funds' :
          /\ client_funds'[c].state = "Frozen"
          /\ c \notin DOMAIN client_funds \/ client_funds[c].state # "Frozen"
          => /\ processed' = processed + 1
             /\ last'[1].type = "Chargeback"
             /\ last'[1].client = c
             /\ c \in DOMAIN client_funds
             /\ client_funds[c].state = "Disputed"
             /\ applied_chargeback(last'[1])]_vars

\* The step that froze a client: an accepted chargeback met the client Disputed
\* with money held, and the client's snapshot in the output is now locked.
C27_Witness ==
    /\ last # None /\ prev # None
    /\ last[1].type = "Chargeback"
    /\ prev[1].state = "Disputed" /\ prev[1].held > 0
    /\ client_funds[last[1].client].state = "Frozen"
    /\ \E o \in output(client_funds) : o.client = last[1].client /\ o.locked
    /\ \A o \in output(client_funds) : o.locked => o.client = last[1].client
====
